---- MODULE Spec2Model ----
(***************************************************************************)
(* Model of the L&T partner-portal bill extraction scripts.                *)
(*                                                                         *)
(*   improved_lnt_bill_extractor.py  BillExtractor: text extractors and    *)
(*                                   the process-pool batch orchestrator   *)
(*   Bill_Detail_Extractor.py        the earlier sequential script         *)
(*                                                                         *)
(* Document text is a TLA+ string; the regular expressions of the source   *)
(* are operators over the characters of that string.  Positions are       *)
(* 1-based; a matcher returns the position just after the match, or 0.     *)
(***************************************************************************)
EXTENDS Integers, Sequences, FiniteSets, TLC

(***************************************************************************)
(* Bounds of the model.                                                    *)
(***************************************************************************)
MaxDocs == 2        \* documents found by one run
MaxRuns == 2        \* runs of the script over the same output file
MaxWorkers == 2     \* worker processes of the pool

(***************************************************************************)
(* Characters and the string functions of Python the code relies on.       *)
(***************************************************************************)
Ch(s, i) == SubSeq(s, i, i)

DigitChars == {"0", "1", "2", "3", "4", "5", "6", "7", "8", "9"}
LowerLetters == "abcdefghijklmnopqrstuvwxyz"
UpperLetters == "ABCDEFGHIJKLMNOPQRSTUVWXYZ"
Whitespace == {" ", "\n", "\t", "\r"}

IsDigit(c) == c \in DigitChars
IsLetter(c) == \E k \in 1..26 : c = Ch(LowerLetters, k) \/ c = Ch(UpperLetters, k)

\* str.upper() on one character
UpperChar(c) ==
    IF \E k \in 1..26 : c = Ch(LowerLetters, k)
    THEN Ch(UpperLetters, CHOOSE k \in 1..26 : c = Ch(LowerLetters, k))
    ELSE c

RECURSIVE Upper(_)
\* str.upper()
Upper(s) == IF s = "" THEN "" ELSE UpperChar(Ch(s, 1)) \o Upper(SubSeq(s, 2, Len(s)))

RECURSIVE LStrip(_)
LStrip(s) == IF s # "" /\ Ch(s, 1) \in Whitespace THEN LStrip(SubSeq(s, 2, Len(s))) ELSE s

RECURSIVE RStrip(_)
RStrip(s) ==
    IF s # "" /\ Ch(s, Len(s)) \in Whitespace THEN RStrip(SubSeq(s, 1, Len(s) - 1)) ELSE s

\* str.strip()
Strip(s) == RStrip(LStrip(s))

\* the least element of a non-empty set of positions
MinOf(S) == CHOOSE i \in S : \A j \in S : i <= j

\* the least element of a set of positions, 0 for the empty set
FirstOf(S) == IF S = {} THEN 0 ELSE MinOf(S)

\* `a or b` for positions: the first one that is a match
OrElse(a, b) == IF a # 0 THEN a ELSE b

\* str.find(sub, start): 1-based position of the first occurrence at or after from, 0 for -1
FindFrom(s, sub, from) ==
    FirstOf({i \in from..(Len(s) - Len(sub) + 1) : SubSeq(s, i, i + Len(sub) - 1) = sub})

Find(s, sub) == FindFrom(s, sub, 1)

\* `sub in s`
Contains(s, sub) == Find(s, sub) # 0

RECURSIVE Split(_, _)
\* str.split(sep) for a one-character separator
Split(s, sep) ==
    LET At(p) == IF p = 0 THEN <<s>>
                 ELSE <<SubSeq(s, 1, p - 1)>> \o Split(SubSeq(s, p + 1, Len(s)), sep)
    IN  At(Find(s, sep))

RECURSIVE RemoveChar(_, _)
\* str.replace(c, '')
RemoveChar(s, c) ==
    IF s = "" THEN ""
    ELSE (IF Ch(s, 1) = c THEN "" ELSE Ch(s, 1)) \o RemoveChar(SubSeq(s, 2, Len(s)), c)

\* os.path.basename
RECURSIVE Basename(_)
Basename(path) ==
    LET At(p) == IF p = 0 THEN path ELSE Basename(SubSeq(path, p + 1, Len(path)))
    IN  At(Find(path, "/"))

(***************************************************************************)
(* Decimal amounts.  float(lexeme) is held as an integer number of         *)
(* hundredths; f"{x:.2f}" prints it back with two fraction digits.         *)
(***************************************************************************)
DigitVal(c) == CHOOSE d \in 0..9 : ToString(d) = c

RECURSIVE DigitsVal(_)
DigitsVal(s) ==
    IF s = "" THEN 0 ELSE 10 * DigitsVal(SubSeq(s, 1, Len(s) - 1)) + DigitVal(Ch(s, Len(s)))

\* float(s) for an optionally signed decimal without separators, in hundredths
ParseFloat(s) ==
    LET Value(body, dot) ==
            100 * DigitsVal(SubSeq(body, 1, dot - 1))
                + DigitsVal(SubSeq(body \o "00", dot + 1, dot + 2))
        Unsigned(body) == Value(body, Find(body, "."))
    IN  IF s # "" /\ Ch(s, 1) = "-" THEN 0 - Unsigned(SubSeq(s, 2, Len(s)))
        ELSE Unsigned(s)

Abs(x) == IF x < 0 THEN 0 - x ELSE x
\* a max that forgets the value kept so far
Latest(x, y) == y

Max(x, y) == IF x >= y THEN x ELSE y

\* f"{x:.2f}"
Fmt2(x) ==
    LET a == Abs(x)
    IN  (IF x < 0 THEN "-" ELSE "") \o ToString(a \div 100) \o "."
        \o (IF a % 100 < 10 THEN "0" ELSE "") \o ToString(a % 100)

(***************************************************************************)
(* Building blocks of the regular expressions.                             *)
(***************************************************************************)
\* \s* at position i: the position of the first non-whitespace character
RECURSIVE SkipWs(_, _)
SkipWs(s, i) == IF i <= Len(s) /\ Ch(s, i) \in Whitespace THEN SkipWs(s, i + 1) ELSE i

\* a literal under re.IGNORECASE at position i
LitCI(s, i, lit) ==
    IF i + Len(lit) - 1 <= Len(s) /\ Upper(SubSeq(s, i, i + Len(lit) - 1)) = Upper(lit)
    THEN i + Len(lit) ELSE 0

RECURSIVE WordsCI(_, _, _)
\* w1\s*w2\s*...wn under re.IGNORECASE at position i
WordsCI(s, i, words) ==
    LET After(e) == IF e = 0 THEN 0
                    ELSE IF Len(words) = 1 THEN e
                    ELSE WordsCI(s, SkipWs(s, e), Tail(words))
    IN  IF words = <<>> THEN i ELSE After(LitCI(s, i, Head(words)))

\* an optional single character c? at position i
Opt(s, i, c) == IF i <= Len(s) /\ Ch(s, i) = c THEN i + 1 ELSE i

\* the end of the longest run of characters satisfying a class, from i
RECURSIVE RunEnd(_, _, _)
RunEnd(s, i, class) ==
    IF i <= Len(s) /\ Ch(s, i) \in class THEN RunEnd(s, i + 1, class) ELSE i

\* [0-9,]+\.\d+ at position i
NumEnd(s, i) ==
    LET Fraction(a, b) == IF a > i /\ a <= Len(s) /\ Ch(s, a) = "." /\ b > a + 1 THEN b ELSE 0
        Point(a) == Fraction(a, RunEnd(s, a + 1, DigitChars))
    IN  Point(RunEnd(s, i, DigitChars \cup {","}))

(***************************************************************************)
(* The declared tables of improved_lnt_bill_extractor.py.                  *)
(***************************************************************************)
FIELDNAMES ==
    << "FILE", "BILL_NO", "RUNNING_BIL", "WO_NO", "JOB", "BILL_PERIOD", "TAX_AMT",
       "TOTAL_AMT", "TDS", "RETENTION", "SUB_CONTRACT", "SUB_CONTRACT_LABOUR",
       "PF_OR_EPS_RECOVERED", "ESI_EMPLOYER_CONTRIBUTION", "ESI_EMPLOYEE_CONTRIBUTION",
       "ROUNDING_OFF" >>

\* DEDUCTION_MAPPING.keys(), in declaration order
DEDUCTION_KEYS ==
    << "TDS", "RETENTION", "SUB_CONTRACT", "SUB_CONTRACT_LABOUR", "PF_OR_EPS_RECOVERED",
       "ESI_EMPLOYER_CONTRIBUTION", "ESI_EMPLOYEE_CONTRIBUTION", "ROUNDING_OFF" >>

DEDUCTION_MAPPING ==
    [ TDS |-> << "TDS U/S 194C-PYT TO CONTRACTORS/SUBCONTRACTORS", "TDS U/S", "TDS" >>,
      RETENTION |-> << "RETENTION" >>,
      SUB_CONTRACT |-> << "SUB - CONTRACT" >>,
      SUB_CONTRACT_LABOUR |-> << "SUB - CONTRACT (LABOUR)" >>,
      PF_OR_EPS_RECOVERED |->
          << "PF/EPS RECOVERED FROM S/C WORKMEN", "PF Recovery from SC (Auto)",
             "PF/EPS RECOVERED" >>,
      ESI_EMPLOYER_CONTRIBUTION |-> << "ESI EMPLOYER'S CONTN", "ESI EMPLOYER" >>,
      ESI_EMPLOYEE_CONTRIBUTION |->
          << "ESI EMPLOYEE'S CONTN.SUB WORKE", "ESI EMPLOYEE'S CONTN", "ESI EMPLOYEE" >>,
      ROUNDING_OFF |-> << "Rounding off in SC Bills", "ROUNDING OFF", "Rounding off" >> ]

SeqToSet(q) == {q[i] : i \in 1..Len(q)}

(***************************************************************************)
(* BillExtractor.extract_bill_header_info                                  *)
(***************************************************************************)
\* re.search: the leftmost position at which the matcher M succeeds, 0 if none
FirstPos(s, M(_, _)) == FirstOf({i \in 1..Len(s) : M(s, i) # 0})

\* re.search(...).group(1): where the group of the leftmost match of M starts
GroupStart(s, M(_, _)) ==
    LET At(p) == IF p = 0 THEN 0 ELSE M(s, p)
    IN  At(FirstPos(s, M))

\* [A-Z]{2}\d{3}BIL\d{7} under re.IGNORECASE at position i
IdAt(s, i) ==
    IF /\ i + 14 <= Len(s)
       /\ \A k \in 0..1 : IsLetter(Ch(s, i + k))
       /\ \A k \in 2..4 : IsDigit(Ch(s, i + k))
       /\ Upper(SubSeq(s, i + 5, i + 7)) = "BIL"
       /\ \A k \in 8..14 : IsDigit(Ch(s, i + k))
    THEN i + 15 ELSE 0

\* label\.?\s*:?\s* : the position at which the captured group has to start
AfterLabel(s, i, words) ==
    LET After(e) == IF e = 0 THEN 0 ELSE SkipWs(s, Opt(s, SkipWs(s, Opt(s, e, ".")), ":"))
    IN  After(WordsCI(s, i, words))

\* BILL\s*NO\.?\s*:?\s*([A-Z]{2}\d{3}BIL\d{7}) : start of the group
BillLabelled(s, i) ==
    LET Group(g) == IF g # 0 /\ IdAt(s, g) # 0 THEN g ELSE 0
    IN  Group(AfterLabel(s, i, <<"BILL", "NO">>))

\* the direct pattern tried with re.match: only at the start of the text
BillDirectAtStart(s, i) == IF i = 1 /\ IdAt(s, i) # 0 THEN i ELSE 0

\* ([A-Z]{2}\d{3}BIL\d{7}) : start of the group
BillDirect(s, i) == IF IdAt(s, i) # 0 THEN i ELSE 0

\* RUNNING\s*BILL\s*NO\.?\s*:?\s*(\d+) : start of the group
RunningLabelled(s, i) ==
    LET Group(g) == IF g # 0 /\ RunEnd(s, g, DigitChars) > g THEN g ELSE 0
    IN  Group(AfterLabel(s, i, <<"RUNNING", "BILL", "NO">>))

\* Running\s*Bill\s*(\d+) : start of the group
RunningShort(s, i) ==
    LET Group(g) == IF RunEnd(s, g, DigitChars) > g THEN g ELSE 0
        After(e) == IF e = 0 THEN 0 ELSE Group(SkipWs(s, e))
    IN  After(WordsCI(s, i, <<"Running", "Bill">>))

AlnumChars == DigitChars \cup {Ch(LowerLetters, k) : k \in 1..26}
                         \cup {Ch(UpperLetters, k) : k \in 1..26}

\* WO\s*No\.?\s*:?\s*([A-Z0-9]+) : start of the group
WoLabelled(s, i) ==
    LET Group(g) == IF g # 0 /\ RunEnd(s, g, AlnumChars) > g THEN g ELSE 0
    IN  Group(AfterLabel(s, i, <<"WO", "No">>))

\* the end of the line that holds position p
LineEnd(s, p) ==
    LET At(n) == IF n = 0 THEN Len(s) + 1 ELSE n
    IN  At(FindFrom(s, "\n", p))

\* label\s*:?\s*([^\n]+) at position i: start of the group.  The two \s* and
\* the :? are greedy and give characters back in regex order when the group
\* would otherwise start at a newline or at the end of the text.
RestOfLine(s, i, words) ==
    LET WsRun(p) == SkipWs(s, p) - p
        Better(c, d) == \/ c[1] > d[1]
                        \/ c[1] = d[1] /\ c[2] > d[2]
                        \/ c[1] = d[1] /\ c[2] = d[2] /\ c[3] >= d[3]
        Start(e, c) == e + c[1] + c[2] + c[3]
        Starts(e, c) == /\ Start(e, c) <= Len(s)
                        /\ Ch(s, Start(e, c)) # "\n"
                        /\ (c[2] = 1 => Ch(s, e + c[1]) = ":")
        Best(e, cands) ==
            IF cands = {} THEN 0
            ELSE Start(e, CHOOSE c \in cands : \A d \in cands : Better(c, d))
        After(e) ==
            IF e = 0 THEN 0
            ELSE Best(e, {c \in UNION {UNION {{<<k1, k, k2>> : k2 \in 0..WsRun(e + k1 + k)} :
                                                 k \in {0, 1}} : k1 \in 0..WsRun(e)} :
                             Starts(e, c)})
    IN  After(WordsCI(s, i, words))

JobLabelled(s, i) == RestOfLine(s, i, <<"Job">>)
PeriodLabelled(s, i) == RestOfLine(s, i, <<"BILL", "PERIOD">>)

extract_bill_header_info(text) ==
    LET Id(g) == IF g = 0 THEN "" ELSE SubSeq(text, g, g + 14)
        Run(g, class) == IF g = 0 THEN "" ELSE SubSeq(text, g, RunEnd(text, g, class) - 1)
        Line(g) == IF g = 0 THEN "" ELSE Strip(SubSeq(text, g, LineEnd(text, g) - 1))
    IN  [ BILL_NO |-> Id(OrElse(GroupStart(text, BillLabelled), FirstPos(text, BillDirect))),
          RUNNING_BILL |->
              Run(OrElse(GroupStart(text, RunningLabelled), GroupStart(text, RunningShort)),
                  DigitChars),
          WO_NO |-> Run(GroupStart(text, WoLabelled), AlnumChars),
          JOB |-> Line(GroupStart(text, JobLabelled)),
          BILL_PERIOD |-> Line(GroupStart(text, PeriodLabelled)) ]

(***************************************************************************)
(* BillExtractor.extract_work_done_amounts                                 *)
(* Returns <<tax_amount, this_bill_amount>>.  Decimal tokens of the        *)
(* bounded texts are separated by whitespace, so a greedy token never has  *)
(* to give digits back to the token that follows it.                       *)
(***************************************************************************)
RECURSIVE NumsFrom(_, _, _)
\* ([0-9,]+\.\d+)\s*(...)  k times from position p: the k lexemes, <<>> if no match
NumsFrom(s, p, k) ==
    LET Then(lexeme, rest) == IF rest = <<>> THEN <<>> ELSE <<lexeme>> \o rest
        After(e) == IF e = 0 THEN <<>>
                    ELSE IF k = 1 THEN <<SubSeq(s, p, e - 1)>>
                    ELSE Then(SubSeq(s, p, e - 1), NumsFrom(s, SkipWs(s, e), k - 1))
    IN  After(NumEnd(s, p))

\* Total\s*Work\s*Done\s*Amount\s*(n)\s*(n)\s*(n)\s*(n)\s*(n) : start of group 1
TotalRowTight(s, i) ==
    LET Group(g) == IF NumsFrom(s, g, 5) # <<>> THEN g ELSE 0
        After(e) == IF e = 0 THEN 0 ELSE Group(SkipWs(s, e))
    IN  After(WordsCI(s, i, <<"Total", "Work", "Done", "Amount">>))

\* Total\s*Work\s*Done\s*Amount.*?(n)\s*(n)\s*(n)\s*(n)\s*(n) with re.DOTALL
TotalRowLoose(s, i) ==
    LET After(e) == IF e = 0 THEN 0
                    ELSE FirstOf({j \in e..Len(s) : NumsFrom(s, j, 5) # <<>>})
    IN  After(WordsCI(s, i, <<"Total", "Work", "Done", "Amount">>))

RECURSIVE FindAllNums(_, _)
\* re.findall(r'[\d,]+\.\d+', s) from position i
FindAllNums(s, i) ==
    LET After(e) == IF e = 0 THEN FindAllNums(s, i + 1)
                    ELSE <<SubSeq(s, i, e - 1)>> \o FindAllNums(s, e)
    IN  IF i > Len(s) THEN <<>> ELSE After(NumEnd(s, i))

TAX_INDICATORS == <<"CGST", "SGST", "IGST", "GST">>

RECURSIVE TaxOfLines(_)
\* the loop over the lines of the work section, adding numbers[-2] of tax lines
TaxOfLines(lines) ==
    LET IsTaxLine(line) ==
            \E k \in 1..Len(TAX_INDICATORS) : Contains(Upper(line), TAX_INDICATORS[k])
        TaxOf(line, numbers) ==
            IF IsTaxLine(line) /\ Len(numbers) >= 2
            THEN ParseFloat(RemoveChar(numbers[Len(numbers) - 1], ","))
            ELSE 0
    IN  IF lines = <<>> THEN 0
        ELSE TaxOf(Head(lines), FindAllNums(Head(lines), 1)) + TaxOfLines(Tail(lines))

\* an extractor that reads the tax from the third column of the row
WorkDoneAmountsThirdColumn(text) ==
    LET Fallback(work_done_start, work_done_end) ==
            IF work_done_start # 0 /\ work_done_end # 0
            THEN << TaxOfLines(Split(SubSeq(text, work_done_start, work_done_end - 1),
                                     "\n")), 0 >>
            ELSE <<0, 0>>
        Amounts(groups) == [k \in 1..5 |-> ParseFloat(RemoveChar(groups[k], ","))]
        TaxAndThisBill(amounts) == <<amounts[3], amounts[2]>>
        Matched(g) ==
            IF g # 0 THEN TaxAndThisBill(Amounts(NumsFrom(text, g, 5)))
            ELSE Fallback(Find(text, "Work Done Details"),
                          Find(text, "Total Work Done Amount"))
    IN  Matched(OrElse(GroupStart(text, TotalRowTight), GroupStart(text, TotalRowLoose)))

extract_work_done_amounts(text) ==
    LET Fallback(work_done_start, work_done_end) ==
            IF work_done_start # 0 /\ work_done_end # 0
            THEN << TaxOfLines(Split(SubSeq(text, work_done_start, work_done_end - 1),
                                     "\n")), 0 >>
            ELSE <<0, 0>>
        Amounts(groups) == [k \in 1..5 |-> ParseFloat(RemoveChar(groups[k], ","))]
        TaxAndThisBill(amounts) == <<amounts[4], amounts[2]>>
        Matched(g) ==
            IF g # 0 THEN TaxAndThisBill(Amounts(NumsFrom(text, g, 5)))
            ELSE Fallback(Find(text, "Work Done Details"),
                          Find(text, "Total Work Done Amount"))
    IN  Matched(OrElse(GroupStart(text, TotalRowTight), GroupStart(text, TotalRowLoose)))

(***************************************************************************)
(* BillExtractor.extract_deductions_from_annexure                          *)
(***************************************************************************)
DEDUCTION_END == <<"Total", "Deduction", "Amount">>

\* the first position at or after from where the end marker matches, 0 if none
EndMarkerFrom(s, from) == FirstOf({j \in from..Len(s) : WordsCI(s, j, DEDUCTION_END) # 0})

\* start(.*?)Total\s*Deduction\s*Amount with re.DOTALL: <<start of group, end of group>>
SectionOf(s, start) ==
    LET EndAfter(b) == IF b = 0 THEN 0 ELSE EndMarkerFrom(s, b)
        Span(b) == <<b, EndMarkerFrom(s, b)>>
        At(i) == IF i = 0 THEN <<0, 0>> ELSE Span(WordsCI(s, i, start))
    IN  At(FirstOf({i \in 1..Len(s) : EndAfter(WordsCI(s, i, start)) # 0}))

deduction_patterns ==
    << <<"ANNEXURE", "-III:", "Bill", "Deductions">>, <<"Deductions", "COA">>,
       <<"Deductions">> >>

\* the text of the deduction section; "" when no pattern matches
DeductionSection(text) ==
    LET Body(g) == SubSeq(text, g[1], g[2] - 1)
        Of(k) == IF k = 0 THEN "" ELSE Body(SectionOf(text, deduction_patterns[k]))
    IN  Of(FirstOf({k \in 1..Len(deduction_patterns) :
                       SectionOf(text, deduction_patterns[k])[1] # 0}))

RECURSIVE StripNonEmpty(_)
\* [line.strip() for line in lines if line.strip()]
StripNonEmpty(lines) ==
    LET Kept(line) == IF line = "" THEN <<>> ELSE <<line>>
    IN  IF lines = <<>> THEN <<>>
        ELSE Kept(Strip(Head(lines))) \o StripNonEmpty(Tail(lines))

HEADER_LINES == {"COA", "Upto Prev. Bill Amount", "This Bill Amount", "Total Deductions"}

\* re.match(r'^\d{5,8}\s*-\s*', line)
IsCodeLine(line) ==
    LET Dash(h) == h <= Len(line) /\ Ch(line, h) = "-"
        Digits(d) == d - 1 >= 5 /\ d - 1 <= 8 /\ Dash(SkipWs(line, d))
    IN  Digits(RunEnd(line, 1, DigitChars))

\* re.match(r'^-?[\d,]+\.\d+$', line)
IsAmountLine(line) == line # "" /\ NumEnd(line, Opt(line, 1, "-")) = Len(line) + 1

RECURSIVE DescEnd(_, _)
\* the inner loop over description lines: the index of the line that ends it
DescEnd(lines, j) ==
    IF j <= Len(lines) /\ ~IsAmountLine(lines[j]) /\ ~IsCodeLine(lines[j])
    THEN DescEnd(lines, j + 1) ELSE j

RECURSIVE JoinDesc(_, _, _)
\* current_description += " " + lines[j] for the lines a..b
JoinDesc(lines, a, b) ==
    IF a > b THEN "" ELSE " " \o Strip(lines[a]) \o JoinDesc(lines, a + 1, b)

RECURSIVE AmountsEnd(_, _)
\* the loop collecting amount lines: the index of the first line after them
AmountsEnd(lines, j) ==
    IF j <= Len(lines) /\ IsAmountLine(lines[j]) THEN AmountsEnd(lines, j + 1) ELSE j

\* any(pattern.upper() in desc_upper for pattern in DEDUCTION_MAPPING[key])
AliasMatches(key, desc_upper) ==
    LET AnyAlias(aliases) == \E a \in 1..Len(aliases) : Contains(desc_upper, Upper(aliases[a]))
    IN  AnyAlias(DEDUCTION_MAPPING[key])

RECURSIVE ClassifyFirstWins(_, _, _, _)
\* a classification that keeps the first value stored under a key
ClassifyFirstWins(deductions, k, desc_upper, this_bill_amount) ==
    IF k > Len(DEDUCTION_KEYS) THEN deductions
    ELSE LET key == DEDUCTION_KEYS[k]
             next == IF ~AliasMatches(key, desc_upper) THEN deductions
                     ELSE IF key = "PF_OR_EPS_RECOVERED"
                     THEN [deductions EXCEPT
                              ![key] = Max(deductions[key], Abs(this_bill_amount))]
                     ELSE IF deductions[key] # 0 THEN deductions
                     ELSE [deductions EXCEPT ![key] = Abs(this_bill_amount)]
         IN  ClassifyFirstWins(next, k + 1, desc_upper, this_bill_amount)

RECURSIVE Classify(_, _, _, _)
\* the loop over DEDUCTION_MAPPING.items() for one record; the break leaves
\* only the loop over the aliases of one key
Classify(deductions, k, desc_upper, this_bill_amount) ==
    IF k > Len(DEDUCTION_KEYS) THEN deductions
    ELSE LET key == DEDUCTION_KEYS[k]
             next == IF ~AliasMatches(key, desc_upper) THEN deductions
                     ELSE IF key = "PF_OR_EPS_RECOVERED"
                     THEN [deductions EXCEPT
                              ![key] = Max(deductions[key], Abs(this_bill_amount))]
                     ELSE [deductions EXCEPT ![key] = Abs(this_bill_amount)]
         IN  Classify(next, k + 1, desc_upper, this_bill_amount)

RECURSIVE ScanLinesFirstAmount(_, _, _)
\* a scan that reads the amount of a record from its first amount line
ScanLinesFirstAmount(lines, i, deductions) ==
    LET Updated(current_description, amounts) ==
            IF Len(amounts) >= 2
            THEN Classify(deductions, 1, Upper(current_description),
                          ParseFloat(RemoveChar(amounts[1], ",")))
            ELSE deductions
        Record(d, j) ==
            ScanLinesFirstAmount(lines, j,
                                 Updated(lines[i] \o JoinDesc(lines, i + 1, d - 1),
                                         SubSeq(lines, d, j - 1)))
        Description(d) == Record(d, AmountsEnd(lines, d))
    IN  IF i > Len(lines) THEN deductions
        ELSE IF lines[i] \in HEADER_LINES THEN ScanLinesFirstAmount(lines, i + 1, deductions)
        ELSE IF IsCodeLine(lines[i]) THEN Description(DescEnd(lines, i + 1))
        ELSE ScanLinesFirstAmount(lines, i + 1, deductions)

RECURSIVE ScanLines(_, _, _)
\* the while loop over the lines of the section, from index i
ScanLines(lines, i, deductions) ==
    LET Updated(current_description, amounts) ==
            IF Len(amounts) >= 2
            THEN Classify(deductions, 1, Upper(current_description),
                          ParseFloat(RemoveChar(amounts[2], ",")))
            ELSE deductions
        Record(d, j) ==
            ScanLines(lines, j,
                      Updated(lines[i] \o JoinDesc(lines, i + 1, d - 1),
                              SubSeq(lines, d, j - 1)))
        Description(d) == Record(d, AmountsEnd(lines, d))
    IN  IF i > Len(lines) THEN deductions
        ELSE IF lines[i] \in HEADER_LINES THEN ScanLines(lines, i + 1, deductions)
        ELSE IF IsCodeLine(lines[i]) THEN Description(DescEnd(lines, i + 1))
        ELSE ScanLines(lines, i + 1, deductions)

VARIABLE last_deductions   \* the dict built by the latest call of the deduction parser

\* a parser that goes on with the dict of the call before
LeftOverDeductions == last_deductions

\* the initial mapping: every key of DEDUCTION_MAPPING at 0.0
InitialDeductions == [key \in SeqToSet(DEDUCTION_KEYS) |-> 0]

extract_deductions_from_annexure(text) ==
    LET Scan(deduction_section) ==
            IF deduction_section = "" THEN InitialDeductions
            ELSE ScanLines(StripNonEmpty(Split(deduction_section, "\n")), 1,
                           InitialDeductions)
    IN  Scan(DeductionSection(text))

(***************************************************************************)
(* BillExtractor.process_single_pdf and _create_empty_row.  A row is a     *)
(* function from column name to cell text (a Python dict of strings);      *)
(* NoRow is the falsy result (None).                                       *)
(***************************************************************************)
NoRow == [field \in {} |-> ""]

\* an empty row built from the header and amount columns only
HeaderOnlyEmptyRow(filename) ==
    [field \in {FIELDNAMES[k] : k \in 1..8} |-> IF field = "FILE" THEN "" ELSE "0.00"]

\* the filename parameter is not used by the dict comprehension
_create_empty_row(filename) ==
    [field \in SeqToSet(FIELDNAMES) |-> IF field = "FILE" THEN "" ELSE "0.00"]

\* the dict literal built after the three extractors have run
MakeRow(filename, header_info, amounts, deductions) ==
    LET tax_amt == amounts[1]
        total_amt == amounts[2]
    IN  [ FILE |-> filename,
          BILL_NO |-> header_info.BILL_NO,
          RUNNING_BILL |-> header_info.RUNNING_BILL,
          WO_NO |-> header_info.WO_NO,
          JOB |-> header_info.JOB,
          BILL_PERIOD |-> header_info.BILL_PERIOD,
          TAX_AMT |-> Fmt2(tax_amt),
          TOTAL_AMT |-> Fmt2(total_amt),
          TDS |-> Fmt2(deductions["TDS"]),
          RETENTION |-> Fmt2(deductions["RETENTION"]),
          SUB_CONTRACT |-> Fmt2(deductions["SUB_CONTRACT"]),
          SUB_CONTRACT_LABOUR |-> Fmt2(deductions["SUB_CONTRACT_LABOUR"]),
          PF_OR_EPS_RECOVERED |-> Fmt2(deductions["PF_OR_EPS_RECOVERED"]),
          ESI_EMPLOYER_CONTRIBUTION |-> Fmt2(deductions["ESI_EMPLOYER_CONTRIBUTION"]),
          ESI_EMPLOYEE_CONTRIBUTION |-> Fmt2(deductions["ESI_EMPLOYEE_CONTRIBUTION"]),
          ROUNDING_OFF |-> Fmt2(deductions["ROUNDING_OFF"]) ]

\* a worker that returns None from its except clause, as process_pdf does
SinglePdfOrNone(pdf_path, full_text, fault) ==
    IF fault THEN NoRow
    ELSE IF Strip(full_text) = "" THEN _create_empty_row(Basename(pdf_path))
    ELSE MakeRow(Basename(pdf_path), extract_bill_header_info(full_text),
                 extract_work_done_amounts(full_text),
                 extract_deductions_from_annexure(full_text))

\* full_text is what extract_text_from_pdf returned ("" when fitz failed);
\* fault is TRUE when a statement inside the try block raised an Exception
process_single_pdf(pdf_path, full_text, fault) ==
    LET filename == Basename(pdf_path)
    IN  IF fault THEN _create_empty_row(filename)
        ELSE IF Strip(full_text) = "" THEN _create_empty_row(filename)
        ELSE MakeRow(filename, extract_bill_header_info(full_text),
                     extract_work_done_amounts(full_text),
                     extract_deductions_from_annexure(full_text))

(***************************************************************************)
(* The documents of the model: the PDF files under the "bills" folders of  *)
(* BASE_DIR and the text PyMuPDF reads from each.                          *)
(***************************************************************************)
PdfPath(i) ==
    "/Users/kumar/Desktop/LNT_Partner_Downloads/WO" \o ToString(i) \o "/Bills/bill"
    \o ToString(i) \o ".pdf"

TEXT_BILL ==
    "BILL NO : AB123BIL1234567\nRUNNING BILL NO : 7\nWO No. : WO123\nJob : SITE A\nBILL PERIOD : JAN 2024\nWork Done Details\nCGST 9% 10.00 110.00\nTotal Work Done Amount 1,000.00 2,500.00 3,500.00 125.00 2,625.00\nANNEXURE -III: Bill Deductions\nCOA\nUpto Prev. Bill Amount\n00011075 - TDS U/S 194C\n10.00\n50.00\n60.00\n00011080 - PF/EPS RECOVERED\nFROM S/C WORKMEN\n-5.00\n-500.00\n-505.00\n00011099 - MISC RECOVERY\n1.00\n2.00\n3.00\nTotal Deduction Amount 552.00"

TEXT_NO_TABLES == "L&T Construction\nCD456BIL0000042\nJob : SITE B\nANNEXURE -III: Bill Deductions\n"

TEXT_BLANK == " \n\t\n"

TEXTS == <<TEXT_BILL, TEXT_NO_TABLES, "", TEXT_BLANK>>

\* process_single_pdf of every document of the model, computed once
SinglePdfRows ==
    [i \in 1..MaxDocs, t \in 1..Len(TEXTS), fault \in BOOLEAN |->
        process_single_pdf(PdfPath(i), TEXTS[t], fault)]

\* extract_work_done_amounts of every text of the model, computed once
WorkDoneAmounts == [t \in 1..Len(TEXTS) |-> extract_work_done_amounts(TEXTS[t])]

(***************************************************************************)
(* csv.DictWriter with extrasaction='raise' and restval=''.                *)
(***************************************************************************)
\* DictWriter._dict_to_list raises ValueError on a key that is not a fieldname
HasWrongFields(rowdict, fieldnames) == DOMAIN rowdict \ SeqToSet(fieldnames) # {}

_dict_to_list(rowdict, fieldnames) ==
    [k \in 1..Len(fieldnames) |->
        IF fieldnames[k] \in DOMAIN rowdict THEN rowdict[fieldnames[k]] ELSE ""]

\* the number of leading rows that writerows writes before it raises
RECURSIVE GoodPrefix(_, _)
GoodPrefix(rows, fieldnames) ==
    IF rows = <<>> \/ HasWrongFields(Head(rows), fieldnames) THEN 0
    ELSE 1 + GoodPrefix(Tail(rows), fieldnames)

\* the lines in the file after writeheader() and writerows(rows), when the
\* device accepts at most `room` rows
WrittenLines(rows, fieldnames, room) ==
    LET Written(n) == <<fieldnames>> \o [k \in 1..n |-> _dict_to_list(rows[k], fieldnames)]
        Least(good) == IF good < room THEN good ELSE room
    IN  Written(Least(GoodPrefix(rows, fieldnames)))

\* writerows(rows) runs into an exception
WriteRaises(rows, fieldnames, room) ==
    room < Len(rows) \/ GoodPrefix(rows, fieldnames) < Len(rows)

(***************************************************************************)
(* Bill_Detail_Extractor.py: the tables and extract_fields.                *)
(***************************************************************************)
\* DEDUCTIONS_KEYS.items(), in declaration order: <<key, field>>
DEDUCTIONS_KEYS ==
    << <<"TDS", "TDS">>,
       <<"RETENTION", "RETENTION">>,
       <<"SUB - CONTRACT", "SUB_CONTRACT">>,
       <<"PF/EPS RECOVERED", "PF_OR_EPS_RECOVERED">>,
       <<"ESI EMPLOYER'S CONTRIBUTION", "ESI EMPLOYER'S CONTRIBUTION">>,
       <<"ESI EMPLOYEE'S CONTN.SUB WORKE", "ESI EMPLOYEE'S CONTN.SUB WORKER">>,
       <<"Rounding off in SC Bills", "ROUNDING_OFF">> >>

fieldnames ==
    << "FILE", "BILL_NO", "RUNNING_BILL_NO", "WO_NO", "JOB", "BILL_PERIOD", "THIS_BILL_QTY",
       "TAX_AMT", "TOTAL_AMT" >> \o [k \in 1..Len(DEDUCTIONS_KEYS) |-> DEDUCTIONS_KEYS[k][2]]

\* [A-Z]{2}[0-9]{3}BIL[0-9]{7} (case-sensitive) at position i
IdAtCS(s, i) ==
    IF IdAt(s, i) # 0 /\ Upper(SubSeq(s, i, i + 7)) = SubSeq(s, i, i + 7) THEN i + 15 ELSE 0

\* the first element of a sequence of lines that satisfies P, 0 if none
FirstLine(lines, P(_)) == FirstOf({k \in 1..Len(lines) : P(lines[k])})

HasId(line) == FirstPos(line, IdAtCS) # 0

\* a line scan that takes four-digit lines only
IsFourDigits(line) == Len(line) = 4 /\ RunEnd(line, 1, DigitChars) = Len(line) + 1

\* re.fullmatch(r'\d{1,4}', line)
IsShortNumber(line) ==
    Len(line) >= 1 /\ Len(line) <= 4 /\ RunEnd(line, 1, DigitChars) = Len(line) + 1

\* returns <<bill_no, running_bill_no>>
extract_bill_info_from_lines(lines, fallback_file) ==
    LET IdOf(line, p) == SubSeq(line, p, p + 14)
        BillNo(b) == IF b = 0 THEN "" ELSE IdOf(lines[b], FirstPos(lines[b], IdAtCS))
        RunningNo(r) == IF r = 0 THEN "" ELSE lines[r]
    IN  << BillNo(FirstLine(lines, HasId)), RunningNo(FirstLine(lines, IsShortNumber)) >>

\* RUNNING BILL NO[\s:\n\-]*([0-9]{1,4}) under re.I : start of the group
OcrRunning(s, i) ==
    LET Group(g) == IF g <= Len(s) /\ IsDigit(Ch(s, g)) THEN g ELSE 0
        After(e) == IF e = 0 THEN 0 ELSE Group(RunEnd(s, e, Whitespace \cup {":", "-"}))
    IN  After(LitCI(s, i, "RUNNING BILL NO"))

\* label\s*:\s*(.+) from the position e after the label: start of the group.
\* The \s* after the colon gives whitespace back until the group can start.
AfterColon(s, e) ==
    LET Last(starts) == IF starts = {} THEN 0 ELSE CHOOSE p \in starts : \A q \in starts : p >= q
        Colon(c) ==
            IF c > Len(s) \/ Ch(s, c) # ":" THEN 0
            ELSE Last({p \in (c + 1)..Len(s) :
                          /\ Ch(s, p) # "\n"
                          /\ \A k \in (c + 1)..(p - 1) : Ch(s, k) \in Whitespace})
    IN  IF e = 0 THEN 0 ELSE Colon(SkipWs(s, e))

\* WO No\.?\s*:\s*([A-Z0-9]+) under re.I : start of the group
LegacyWo(s, i) ==
    LET Group(g) == IF RunEnd(s, g, AlnumChars) > g THEN g ELSE 0
        Colon(c) == IF c <= Len(s) /\ Ch(s, c) = ":" THEN Group(SkipWs(s, c + 1)) ELSE 0
        After(e) == IF e = 0 THEN 0 ELSE Colon(SkipWs(s, Opt(s, e, ".")))
    IN  After(LitCI(s, i, "WO No"))

\* Job\s*:\s*(.+) (case-sensitive) : start of the group
LegacyJob(s, i) ==
    IF i + 2 <= Len(s) /\ SubSeq(s, i, i + 2) = "Job" THEN AfterColon(s, i + 3) ELSE 0

\* BILL PERIOD\s*:\s*([^\n]+) under re.I : start of the group
LegacyPeriod(s, i) == AfterColon(s, LitCI(s, i, "BILL PERIOD"))

\* \s+ at position i: 0 when there is no whitespace
SkipWs1(s, i) ==
    LET After(e) == IF e > i THEN e ELSE 0
    IN  After(SkipWs(s, i))

\* \n([\d,]+\.\d+)\s+([\d,]+\.\d+)\s+([\d,]+\.\d+) at position i:
\* <<end of the match, the three lexemes>>, <<0>> if no match
TripleAt(s, i) ==
    LET Gap(e) == IF e = 0 THEN 0 ELSE SkipWs1(s, e)
        Number(g) == IF g = 0 THEN 0 ELSE NumEnd(s, g)
        Third(e1, g2, e2, g3, e3) ==
            IF e3 # 0
            THEN <<e3, SubSeq(s, i + 1, e1 - 1), SubSeq(s, g2, e2 - 1), SubSeq(s, g3, e3 - 1)>>
            ELSE <<0>>
        ThirdGap(e1, g2, e2, g3) == Third(e1, g2, e2, g3, Number(g3))
        Second(e1, g2, e2) == ThirdGap(e1, g2, e2, Gap(e2))
        SecondGap(e1, g2) == Second(e1, g2, Number(g2))
        First(e1) == SecondGap(e1, Gap(e1))
    IN  IF i <= Len(s) /\ Ch(s, i) = "\n" THEN First(NumEnd(s, i + 1)) ELSE <<0>>

RECURSIVE WorkDoneSums(_, _)
\* the sums over re.findall of the triples from position i: <<qty, tax, total>>
WorkDoneSums(s, i) ==
    LET Added(m, rest) ==
            << ParseFloat(RemoveChar(m[2], ",")) + rest[1],
               ParseFloat(RemoveChar(m[3], ",")) + rest[2],
               ParseFloat(RemoveChar(m[4], ",")) + rest[3] >>
        After(m) == IF m[1] = 0 THEN WorkDoneSums(s, i + 1)
                    ELSE Added(m, WorkDoneSums(s, m[1]))
    IN  IF i > Len(s) THEN <<0, 0, 0>> ELSE After(TripleAt(s, i))

\* [\-\d,]+\.\d+ at position i
SignedNumEnd(s, i) ==
    LET Fraction(a, b) == IF a > i /\ a <= Len(s) /\ Ch(s, a) = "." /\ b > a + 1 THEN b ELSE 0
        Point(a) == Fraction(a, RunEnd(s, a + 1, DigitChars))
    IN  Point(RunEnd(s, i, DigitChars \cup {",", "-"}))

\* re.escape(key).*?([\-\d,]+\.\d+) under re.I and re.DOTALL: the group, "" if no match
DeductionValue(ded_text, key) ==
    LET Number(g) == SubSeq(ded_text, g, SignedNumEnd(ded_text, g) - 1)
        NumberFrom(e) == FirstOf({j \in e..Len(ded_text) : SignedNumEnd(ded_text, j) # 0})
        KeyEnd(e) == IF e = 0 THEN 0 ELSE NumberFrom(e)
        At(i) == IF i = 0 THEN "" ELSE Number(NumberFrom(LitCI(ded_text, i, key)))
    IN  At(FirstOf({i \in 1..Len(ded_text) : KeyEnd(LitCI(ded_text, i, key)) # 0}))

\* the result dict of extract_fields; ocr_text is what pytesseract returned for
\* the first page ("" also when the OCR step raised)
extract_fields(text, file_path, ocr_text) ==
    LET Digits4(og, e) == SubSeq(ocr_text, og, (IF e > og + 4 THEN og + 4 ELSE e) - 1)
        OcrNo(og) == IF og = 0 THEN "" ELSE Digits4(og, RunEnd(ocr_text, og, DigitChars))
        RunningBillNo(from_lines) ==
            IF from_lines # "" THEN from_lines ELSE OcrNo(GroupStart(ocr_text, OcrRunning))
        Word(g) == IF g = 0 THEN "" ELSE SubSeq(text, g, RunEnd(text, g, AlnumChars) - 1)
        Line(g) == IF g = 0 THEN "" ELSE Strip(SubSeq(text, g, LineEnd(text, g) - 1))
        Parsed(info) ==
            [ file |-> Basename(file_path),
              bill_no |-> info[1],
              running_bill_no |-> RunningBillNo(info[2]),
              wo_no |-> Word(GroupStart(text, LegacyWo)),
              job |-> Line(GroupStart(text, LegacyJob)),
              bill_period |-> Line(GroupStart(text, LegacyPeriod)) ]
        WorkDone(sums) ==
            IF sums[1] # 0 /\ sums[2] # 0 /\ sums[3] # 0
            THEN [ this_bill_qty |-> Fmt2(sums[1]), tax_amt |-> Fmt2(sums[2]),
                   total_amt |-> Fmt2(sums[3]) ]
            ELSE NoRow
        Matched(values) ==
            [field \in {DEDUCTIONS_KEYS[k][2] :
                           k \in {m \in 1..Len(DEDUCTIONS_KEYS) : values[m] # ""}} |->
                RemoveChar(values[CHOOSE k \in 1..Len(DEDUCTIONS_KEYS) :
                                     values[k] # "" /\ DEDUCTIONS_KEYS[k][2] = field], ",")]
        Deducted(ded_text) ==
            Matched([k \in 1..Len(DEDUCTIONS_KEYS) |->
                        DeductionValue(ded_text, DEDUCTIONS_KEYS[k][1])])
        Deductions(deductions_start) ==
            IF deductions_start = 0 THEN NoRow
            ELSE Deducted(SubSeq(text, deductions_start, Len(text)))
    IN  Parsed(extract_bill_info_from_lines(StripNonEmpty(Split(text, "\n")),
                                            Basename(file_path)))
        @@ WorkDone(WorkDoneSums(text, 1))
        @@ Deductions(Find(text, "ANNEXURE -III"))
        @@ [key \in SeqToSet(fieldnames) |-> ""]

\* process_pdf: None when fitz raised while reading the file
process_pdf(file_path, text, readable, ocr_text) ==
    IF readable THEN extract_fields(text, file_path, ocr_text) ELSE NoRow

OCR_TEXTS == <<"", "L&T\nRunning Bill No : 12345\n">>

\* process_pdf of every document of the model, computed once
PdfRows ==
    [i \in 1..MaxDocs, t \in 1..Len(TEXTS), readable \in BOOLEAN, o \in 1..Len(OCR_TEXTS) |->
        process_pdf(PdfPath(i), TEXTS[t], readable, OCR_TEXTS[o])]

(***************************************************************************)
(* Documents handed to one extractor at a time.  Each document is given as *)
(* the table it prints, with the amounts it means in hundredths, and as    *)
(* the text PyMuPDF reads from it.                                         *)
(***************************************************************************)
MaxRecords == 2
MaxTokens == 5
MaxCalls == 3
MaxFiles == 3
MaxLines == 4

\* the records an annexure may list: the description after the COA code, the
\* "This Bill Amount" line and the amount it means
DEDUCTION_RECORDS ==
    << [desc |-> <<"PF/EPS RECOVERED">>, cur |-> "500.00", value |-> 50000],
       [desc |-> <<"PF/EPS RECOVERED", "FROM S/C WORKMEN">>, cur |-> "-750.00",
        value |-> -75000],
       [desc |-> <<"TDS U/S 194C">>, cur |-> "100.00", value |-> 10000],
       [desc |-> <<"TDS">>, cur |-> "50.00", value |-> 5000],
       [desc |-> <<"SUB - CONTRACT (LABOUR)">>, cur |-> "-1,020.00", value |-> -102000] >>

RECURSIVE Joined(_, _)
\* the lines of a description, sep between them
Joined(lines, sep) ==
    IF Len(lines) = 1 THEN lines[1] ELSE lines[1] \o sep \o Joined(Tail(lines), sep)

\* the "Upto Prev. Bill Amount" and "Total Deductions" lines of every record
PRIOR_LINE == [lex |-> "1.00", value |-> 100]
CUMULATIVE_LINE == [lex |-> "2.00", value |-> 200]

RECURSIVE RecordLines(_)
\* a record of the table: code and description, then the three amount lines
RecordLines(recs) ==
    IF recs = <<>> THEN ""
    ELSE "00011080 - " \o Joined(DEDUCTION_RECORDS[Head(recs)].desc, "\n") \o "\n"
         \o PRIOR_LINE.lex \o "\n" \o DEDUCTION_RECORDS[Head(recs)].cur \o "\n"
         \o CUMULATIVE_LINE.lex \o "\n" \o RecordLines(Tail(recs))

\* the text of an annexure that lists the records recs, in this order
AnnexureText(recs) ==
    "ANNEXURE -III: Bill Deductions\nCOA\n" \o RecordLines(recs)
    \o "Total Deduction Amount"

AnnexureDocs == UNION {[1..n -> 1..Len(DEDUCTION_RECORDS)] : n \in 0..MaxRecords}

\* the text of an annexure whose "Total Deduction Amount" line is not in the
\* text: the records are the last lines of the document
OpenAnnexureText(recs) == "ANNEXURE -III: Bill Deductions\nCOA\n" \o RecordLines(recs)

\* the annexures printed without the total line: one record each
OpenAnnexureDocs == [1..1 -> 1..Len(DEDUCTION_RECORDS)]

\* the decimal tokens of a total row and the amounts they mean
AMOUNT_TOKENS ==
    << [lex |-> "1,000.00", value |-> 100000], [lex |-> "2,500.00", value |-> 250000],
       [lex |-> "3,500.00", value |-> 350000], [lex |-> "125.00", value |-> 12500],
       [lex |-> "2,625.00", value |-> 262500], [lex |-> "40.00", value |-> 4000] >>

GST_LINES == "Work Done Details\nCGST 9% 10.00 110.00\n"

RECURSIVE TokenRun(_, _, _)
\* the tokens k..n of the row, each after the separator
TokenRun(k, n, sep) ==
    IF k > n THEN "" ELSE sep \o AMOUNT_TOKENS[k].lex \o TokenRun(k + 1, n, sep)

\* the text of a work-done table: the tax lines if gst, then the total row
\* with its label (or another label) and count tokens
AmountText(doc) ==
    (IF doc.gst THEN GST_LINES ELSE "")
    \o (IF doc.label THEN "Total Work Done Amount" ELSE "Gross Amount")
    \o TokenRun(1, doc.count, doc.sep) \o "\n"

AmountDocs ==
    [gst : BOOLEAN, label : BOOLEAN, count : 0..MaxTokens, sep : {" ", "\n"}]

\* the ways a bill number is printed, with the identifier a reader sees
HEADER_BILLS ==
    << [text |-> "", id |-> ""],
       [text |-> "BILL NO : AB123BIL1234567\n", id |-> "AB123BIL1234567"],
       [text |-> "AB123BIL1234567\n", id |-> "AB123BIL1234567"],
       [text |-> "Ref CD456BIL0000042 dated\n", id |-> "CD456BIL0000042"] >>

\* the ways a running bill number is printed, with the digits a reader sees
HEADER_RUNNING ==
    << [text |-> "", digits |-> ""],
       [text |-> "RUNNING BILL NO : 7\n", digits |-> "7"],
       [text |-> "RUNNING BILL NO :\n12\n", digits |-> "12"],
       [text |-> "Running Bill No.\n1234\n", digits |-> "1234"] >>

\* the text of a first page with the two numbers printed as doc says
HeaderText(doc) ==
    "L&T Construction\n" \o HEADER_BILLS[doc.bill].text
    \o HEADER_RUNNING[doc.running].text \o "Job : SITE A\n"

HeaderDocs == [bill : 1..Len(HEADER_BILLS), running : 1..Len(HEADER_RUNNING)]

\* the texts of the files one worker process is given, one after the other
CALL_TEXTS == <<AnnexureText(<<3>>), TEXT_NO_TABLES, "">>

\* process_single_pdf of every file a worker is given, computed once
CallRows ==
    [i \in 1..MaxDocs, t \in 1..Len(CALL_TEXTS) |->
        process_single_pdf(PdfPath(i), CALL_TEXTS[t], FALSE)]

\* extract_deductions_from_annexure of every text of CALL_TEXTS, computed once
CallDeductions ==
    [t \in 1..Len(CALL_TEXTS) |-> extract_deductions_from_annexure(CALL_TEXTS[t])]

(***************************************************************************)
(* State of a run of improved_lnt_bill_extractor.py (process_all_pdfs).    *)
(***************************************************************************)
VARIABLES
    script,         \* the script being run: "none", "improved" or "legacy"
    runs,           \* number of runs started so far
    pc,             \* "idle", "collect" (as_completed loop), "scan" (legacy loop), "done"
    pdf_files,      \* the documents found by this run, as indexes of PdfPath
    future,         \* future[k]: the task submitted for pdf_files[k]
    results,        \* process_all_pdfs: the list of collected rows
    all_results,    \* scan_and_extract: the list of collected rows
    scan_pos,       \* scan_and_extract: position of the loop in pdf_files
    output,         \* output[name]: the CSV file of each script
    outcome,        \* how the last run ended: "none", "returned" or "raised"
    write_error,    \* the writer of the last run ran into an exception
    input,          \* the document handed to an extractor called on its own
    step,           \* "ready", then the extractor that was applied to input
    extracted,      \* what that extractor returned
    calls,          \* the calls of process_single_pdf made in one process, in order
    zip_pc,         \* zip_year_folder: "idle", "loop" (over iter_files) or "done"
    files,          \* the files iter_files yields, in order, as indexes of FILE_KINDS
    file_pos,       \* position of the loop in files
    part,           \* number of the part being written
    bytes_written,  \* zf.fp.tell() after the last write to the open part
    dest_root,      \* the archives in the destination folder, in order of creation
    ledger,         \* the stripped, non-empty lines of a deduction section
    line_index,     \* the line scanner: index of the next line (i + 1 of the code)
    ledger_deductions,  \* the line scanner: the mapping built so far
    iterations      \* the line scanner: iterations of the while loop so far

run_vars ==
    << script, runs, pc, pdf_files, future, results, all_results, scan_pos,
       output, outcome, write_error >>

extractor_vars == << input, step, extracted, calls, last_deductions >>

zip_vars == << zip_pc, files, file_pos, part, bytes_written, dest_root >>

scan_vars == << ledger, line_index, ledger_deductions, iterations >>

vars == << run_vars, extractor_vars, zip_vars, scan_vars >>

OUTPUT_CSV == "lnt_bills_output.csv"
output_csv == "lnt_bills_summary.csv"

\* a file that does not exist; opened counts the times open() created or truncated it
NoFile == [exists |-> FALSE, lines |-> <<>>, opened |-> 0]
EMPTY_TEXT == CHOOSE t \in 1..Len(TEXTS) : TEXTS[t] = ""

\* a submitted task; text and fault record what the worker met when it ran
NewFuture ==
    [ state |-> "PENDING", row |-> NoRow, exception |-> FALSE, yielded |-> FALSE,
      text |-> 0, fault |-> FALSE ]

\* no extractor has been called on its own
NoInput ==
    [ kind |-> "none", name |-> 0, ocr |-> 1, recs |-> <<>>, total |-> TRUE,
      table |-> [gst |-> FALSE, label |-> FALSE, count |-> 0, sep |-> " "],
      header |-> [bill |-> 1, running |-> 1] ]

ExtractorIdle ==
    /\ input = NoInput
    /\ step = "ready"
    /\ extracted = <<>>
    /\ calls = <<>>
    /\ last_deductions = [key \in SeqToSet(DEDUCTION_KEYS) |-> 0]

\* the line scanner has not been started
ScanIdle ==
    /\ ledger = <<>>
    /\ line_index = 1
    /\ ledger_deductions = [key \in SeqToSet(DEDUCTION_KEYS) |-> 0]
    /\ iterations = 0

\* zip_year_folder has not been called
ZipIdle ==
    /\ zip_pc = "idle"
    /\ files = <<>>
    /\ file_pos = 1
    /\ part = 1
    /\ bytes_written = 0
    /\ dest_root = <<>>

\* no run has started
NoRun ==
    /\ script = "none"
    /\ runs = 0
    /\ pc = "idle"
    /\ pdf_files = <<>>
    /\ future = <<>>
    /\ results = <<>>
    /\ all_results = <<>>
    /\ scan_pos = 1
    /\ output = (OUTPUT_CSV :> NoFile) @@ (output_csv :> NoFile)
    /\ outcome = "none"
    /\ write_error = FALSE

Init == NoRun /\ ExtractorIdle /\ ZipIdle /\ ScanIdle

\* find_pdf_files: the first n documents are on disk when the run starts
find_pdf_files(n) == [k \in 1..n |-> k]

\* a new process runs process_all_pdfs up to the submission of every job to the pool
StartImproved(n) ==
    /\ pc \in {"idle", "done"}
    /\ runs < MaxRuns
    /\ runs' = runs + 1
    /\ script' = "improved"
    /\ pdf_files' = find_pdf_files(n)
    /\ results' = <<>>
    /\ write_error' = FALSE
    /\ IF n = 0
       THEN /\ pc' = "done"
            /\ outcome' = "returned"
            /\ future' = <<>>
       ELSE /\ pc' = "collect"
            /\ outcome' = "none"
            /\ future' = [k \in 1..n |-> NewFuture]
    /\ all_results' = <<>>
    /\ scan_pos' = 1
    /\ UNCHANGED output
    /\ UNCHANGED extractor_vars
    /\ UNCHANGED zip_vars
    /\ UNCHANGED scan_vars

Running == {k \in 1..Len(future) : future[k].state = "RUNNING"}

\* a worker process of the pool takes the next task
WorkerTakes(k) ==
    /\ script = "improved" /\ pc = "collect"
    /\ k \in 1..Len(future)
    /\ future[k].state = "PENDING"
    /\ Cardinality(Running) < MaxWorkers
    /\ future' = [future EXCEPT ![k].state = "RUNNING"]
    /\ UNCHANGED <<script, runs, pc, pdf_files, results, all_results, scan_pos,
                   output, outcome, write_error>>
    /\ UNCHANGED extractor_vars
    /\ UNCHANGED zip_vars
    /\ UNCHANGED scan_vars

\* the worker returns from process_single_pdf; text is the index in TEXTS of
\* the text of the PDF, readable is FALSE when fitz could not read the file,
\* fault is TRUE when the try block raised
WorkerReturns(k, text, readable, fault) ==
    /\ script = "improved" /\ pc = "collect"
    /\ k \in 1..Len(future)
    /\ future[k].state = "RUNNING"
    /\ LET Returned(t) ==
               [future EXCEPT
                   ![k].state = "FINISHED",
                   ![k].row = SinglePdfRows[pdf_files[k], t, fault],
                   ![k].text = t,
                   ![k].fault = fault]
       IN  future' = Returned(IF readable THEN text ELSE EMPTY_TEXT)
    /\ UNCHANGED <<script, runs, pc, pdf_files, results, all_results, scan_pos,
                   output, outcome, write_error>>
    /\ UNCHANGED extractor_vars
    /\ UNCHANGED zip_vars
    /\ UNCHANGED scan_vars

\* the worker process running task k terminates abruptly: the pool is broken
\* and every future that is not finished gets the exception
WorkerDies(k) ==
    /\ script = "improved" /\ pc = "collect"
    /\ k \in 1..Len(future)
    /\ future[k].state = "RUNNING"
    /\ future' = [j \in 1..Len(future) |->
                     IF future[j].state = "FINISHED" THEN future[j]
                     ELSE [future[j] EXCEPT !.state = "FINISHED", !.exception = TRUE]]
    /\ UNCHANGED <<script, runs, pc, pdf_files, results, all_results, scan_pos,
                   output, outcome, write_error>>
    /\ UNCHANGED extractor_vars
    /\ UNCHANGED zip_vars
    /\ UNCHANGED scan_vars

\* one iteration of the loop over as_completed(future_to_pdf)
Collect(k) ==
    /\ script = "improved" /\ pc = "collect"
    /\ k \in 1..Len(future)
    /\ future[k].state = "FINISHED"
    /\ ~future[k].yielded
    /\ future' = [future EXCEPT ![k].yielded = TRUE]
    /\ results' =
          IF future[k].exception
          THEN Append(results, _create_empty_row(Basename(PdfPath(pdf_files[k]))))
          ELSE IF future[k].row # NoRow THEN Append(results, future[k].row)
          ELSE results
    /\ UNCHANGED <<script, runs, pc, pdf_files, all_results, scan_pos, output,
                   outcome, write_error>>
    /\ UNCHANGED extractor_vars
    /\ UNCHANGED zip_vars
    /\ UNCHANGED scan_vars

\* a join that lets the orchestrator go on after the first completed task
FirstTaskDone == \E k \in 1..Len(future) : future[k].yielded

\* as_completed is exhausted and the with block of the executor is left
AllTasksDone == \A k \in 1..Len(future) : future[k].yielded

\* open(path, 'a'): the lines already in the file are kept
OpenForAppend(file) == file.lines

\* open(path, 'w'): the lines the file starts with, none, as the file is truncated
OpenForWrite(file) == <<>>

\* the file after `with open(path, 'w')`, writeheader() and writerows(rows)
FileAfterWrite(file, rows, names, room) ==
    [ exists |-> TRUE,
      lines |-> OpenForWrite(file) \o WrittenLines(rows, names, room),
      opened |-> file.opened + 1 ]

\* _write_results_to_csv(results, output_csv), called when the loop has ended.
\* can_open: open() succeeds; room: rows the device accepts before an OSError
WriteResults(can_open, room) ==
    /\ script = "improved" /\ pc = "collect"
    /\ AllTasksDone
    /\ room \in 0..Len(results)
    /\ pc' = "done"
    /\ outcome' = "returned"
    /\ IF results = <<>>
       THEN UNCHANGED <<output, write_error>>
       ELSE IF ~can_open
       THEN /\ write_error' = TRUE
            /\ UNCHANGED output
       ELSE /\ output' = [output EXCEPT ![OUTPUT_CSV] =
                             FileAfterWrite(output[OUTPUT_CSV], results, FIELDNAMES, room)]
            /\ write_error' = WriteRaises(results, FIELDNAMES, room)
    /\ UNCHANGED <<script, runs, pdf_files, future, results, all_results, scan_pos>>
    /\ UNCHANGED extractor_vars
    /\ UNCHANGED zip_vars
    /\ UNCHANGED scan_vars

(***************************************************************************)
(* A run of Bill_Detail_Extractor.py (scan_and_extract).                   *)
(***************************************************************************)
StartLegacy(n) ==
    /\ pc \in {"idle", "done"}
    /\ runs < MaxRuns
    /\ runs' = runs + 1
    /\ script' = "legacy"
    /\ pdf_files' = find_pdf_files(n)
    /\ all_results' = <<>>
    /\ scan_pos' = 1
    /\ pc' = "scan"
    /\ outcome' = "none"
    /\ write_error' = FALSE
    /\ future' = <<>>
    /\ results' = <<>>
    /\ UNCHANGED output
    /\ UNCHANGED extractor_vars
    /\ UNCHANGED zip_vars
    /\ UNCHANGED scan_vars

\* one iteration of the loop over the files of a bills folder; text is the
\* index in TEXTS of the text of the PDF
ProcessPdf(text, readable, o) ==
    /\ script = "legacy" /\ pc = "scan"
    /\ scan_pos <= Len(pdf_files)
    /\ LET Collected(data) == IF data # NoRow THEN Append(all_results, data) ELSE all_results
       IN  all_results' =
               Collected(PdfRows[pdf_files[scan_pos], text, readable, o])
    /\ scan_pos' = scan_pos + 1
    /\ UNCHANGED <<script, runs, pc, pdf_files, future, results, output, outcome,
                   write_error>>
    /\ UNCHANGED extractor_vars
    /\ UNCHANGED zip_vars
    /\ UNCHANGED scan_vars

\* the "Save CSV" block at the end of scan_and_extract; nothing catches its exceptions
SaveCsv(can_open, room) ==
    /\ script = "legacy" /\ pc = "scan"
    /\ scan_pos > Len(pdf_files)
    /\ room \in 0..Len(all_results)
    /\ pc' = "done"
    /\ IF ~can_open
       THEN /\ write_error' = TRUE
            /\ outcome' = "raised"
            /\ UNCHANGED output
       ELSE /\ output' = [output EXCEPT ![output_csv] =
                             FileAfterWrite(output[output_csv], all_results, fieldnames,
                                            room)]
            /\ write_error' = WriteRaises(all_results, fieldnames, room)
            /\ outcome' = IF WriteRaises(all_results, fieldnames, room)
                          THEN "raised" ELSE "returned"
    /\ UNCHANGED <<script, runs, pdf_files, future, results, all_results, scan_pos>>
    /\ UNCHANGED extractor_vars
    /\ UNCHANGED zip_vars
    /\ UNCHANGED scan_vars

Next ==
    \/ \E n \in 0..MaxDocs : StartImproved(n)
    \/ \E k \in 1..MaxDocs : WorkerTakes(k)
    \/ \E k \in 1..MaxDocs, text \in 1..Len(TEXTS), readable \in BOOLEAN,
          fault \in BOOLEAN : WorkerReturns(k, text, readable, fault)
    \/ \E k \in 1..MaxDocs : WorkerDies(k)
    \/ \E k \in 1..MaxDocs : Collect(k)
    \/ \E can_open \in BOOLEAN, room \in 0..MaxDocs : WriteResults(can_open, room)
    \/ \E n \in 0..MaxDocs : StartLegacy(n)
    \/ \E text \in 1..Len(TEXTS), readable \in BOOLEAN, o \in 1..Len(OCR_TEXTS) :
          ProcessPdf(text, readable, o)
    \/ \E can_open \in BOOLEAN, room \in 0..MaxDocs : SaveCsv(can_open, room)

Spec == Init /\ [][Next]_vars

(***************************************************************************)
(* One extractor applied to one document: the document is chosen when the  *)
(* behaviour starts, and each action is a call of one extractor on it.     *)
(***************************************************************************)
Inputs ==
    {[NoInput EXCEPT !.kind = "annexure", !.recs = d] : d \in AnnexureDocs}
    \cup {[NoInput EXCEPT !.kind = "annexure", !.recs = d, !.total = FALSE] :
             d \in OpenAnnexureDocs}
    \cup {[NoInput EXCEPT !.kind = "amounts", !.table = d] : d \in AmountDocs}
    \cup {[NoInput EXCEPT !.kind = "header", !.name = i, !.ocr = o, !.header = d] :
             i \in 1..MaxDocs, o \in 1..Len(OCR_TEXTS), d \in HeaderDocs}

ExtractInit ==
    /\ NoRun
    /\ input \in Inputs
    /\ step = "ready"
    /\ extracted = <<>>
    /\ calls = <<>>
    /\ last_deductions = [key \in SeqToSet(DEDUCTION_KEYS) |-> 0]
    /\ ZipIdle
    /\ ScanIdle

\* extract_deductions_from_annexure(full_text)
ApplyDeductions ==
    /\ step = "ready" /\ input.kind = "annexure"
    /\ extracted' = extract_deductions_from_annexure(
                        IF input.total THEN AnnexureText(input.recs)
                        ELSE OpenAnnexureText(input.recs))
    /\ last_deductions' = extracted'
    /\ step' = "deductions"
    /\ UNCHANGED <<input, calls>>
    /\ UNCHANGED run_vars
    /\ UNCHANGED zip_vars
    /\ UNCHANGED scan_vars

\* extract_work_done_amounts(full_text)
ApplyAmounts ==
    /\ step = "ready" /\ input.kind = "amounts"
    /\ extracted' = extract_work_done_amounts(AmountText(input.table))
    /\ step' = "amounts"
    /\ UNCHANGED <<input, calls, last_deductions>>
    /\ UNCHANGED run_vars
    /\ UNCHANGED zip_vars
    /\ UNCHANGED scan_vars

\* process_single_pdf on a file whose text has the header lines of input
ApplyImproved ==
    /\ step = "ready" /\ input.kind = "header"
    /\ extracted' = process_single_pdf(PdfPath(input.name), HeaderText(input.header), FALSE)
    /\ last_deductions' = extract_deductions_from_annexure(HeaderText(input.header))
    /\ step' = "improved"
    /\ UNCHANGED <<input, calls>>
    /\ UNCHANGED run_vars
    /\ UNCHANGED zip_vars
    /\ UNCHANGED scan_vars

\* extract_fields on the same file; input.ocr is the index in OCR_TEXTS of what
\* the OCR of the first page gives
ApplyLegacy ==
    /\ step = "ready" /\ input.kind = "header"
    /\ extracted' = extract_fields(HeaderText(input.header), PdfPath(input.name),
                                   OCR_TEXTS[input.ocr])
    /\ step' = "legacy"
    /\ UNCHANGED <<input, calls, last_deductions>>
    /\ UNCHANGED run_vars
    /\ UNCHANGED zip_vars
    /\ UNCHANGED scan_vars

ExtractNext ==
    \/ ApplyDeductions
    \/ ApplyAmounts
    \/ ApplyImproved
    \/ ApplyLegacy

ExtractSpec == ExtractInit /\ [][ExtractNext]_vars

(***************************************************************************)
(* One process calling process_single_pdf several times, as a pool worker  *)
(* does with the tasks it is given.                                        *)
(***************************************************************************)
\* the call process_single_pdf(PdfPath(i)) on a file whose text is CALL_TEXTS[t]
CallSinglePdf(i, t) ==
    /\ Len(calls) < MaxCalls
    /\ calls' = Append(calls, [pdf |-> i, text |-> t, row |-> CallRows[i, t]])
    /\ last_deductions' =
          IF Strip(CALL_TEXTS[t]) = "" THEN last_deductions ELSE CallDeductions[t]
    /\ UNCHANGED <<input, step, extracted>>
    /\ UNCHANGED run_vars
    /\ UNCHANGED zip_vars
    /\ UNCHANGED scan_vars

RepeatNext == \E i \in 1..MaxDocs, t \in 1..Len(CALL_TEXTS) : CallSinglePdf(i, t)

RepeatSpec == Init /\ [][RepeatNext]_vars

(***************************************************************************)
(* zip_by_year_split.py: zip_year_folder(src_dir, dest_root) over one      *)
(* financial-year folder.  A file is given by its size on disk and by the  *)
(* number of bytes DEFLATE level 6 makes of its content; sizes are bytes.  *)
(***************************************************************************)
MAX_PART == 23 * 1024 * 1024

\* src_dir.name
fy == "2018-2019"

\* the kinds of file of the model: 1 MiB that compresses well, then 20 MiB,
\* 3 MiB, 24 MiB and 23 MiB - 4 KiB that do not compress (zlib stores them
\* with 5 bytes more per 16 KiB)
FILE_KINDS ==
    << [size |-> 1048576, deflated |-> 1033],
       [size |-> 20971520, deflated |-> 20977920],
       [size |-> 3145728, deflated |-> 3146688],
       [size |-> 25165824, deflated |-> 25173504],
       [size |-> 24113152, deflated |-> 24120512] >>

\* the folders of the model: what iter_files yields, in the order it yields it
ZipFolders == UNION {[1..n -> 1..Len(FILE_KINDS)] : n \in 0..MaxFiles}

\* rel_path of the k-th file
RelPath(k) == "f" \o ToString(k) \o ".pdf"

\* ZipFile.write puts a local file header (30 bytes and the name) before the
\* compressed content
LocalHeader(rel_path) == 30 + Len(rel_path)

\* ZipFile.close appends one central directory entry (46 bytes and the name)
\* for each member and the end-of-directory record (22 bytes)
CentralEntry(rel_path) == 46 + Len(rel_path)
EndRecord == 22

PartPath(n) == fy \o "_part" \o ToString(n) \o ".zip"

\* ZipFile(zip_path, "w"): an archive without members, not yet closed
NewZip(zip_path) == [name |-> zip_path, bytes |-> 0, directory |-> 0, closed |-> FALSE]

\* zf.close() on the last archive of root
Closed(root) ==
    [root EXCEPT ![Len(root)].bytes = @ + root[Len(root)].directory + EndRecord,
                 ![Len(root)].directory = 0,
                 ![Len(root)].closed = TRUE]

\* zf.write(abs_path, rel_path) on the last archive of root
Written(root, rel_path, file) ==
    [root EXCEPT ![Len(root)].bytes = @ + LocalHeader(rel_path) + file.deflated,
                 ![Len(root)].directory = @ + CentralEntry(rel_path)]

\* lines 27-31: the first part is opened before the loop
ZipInit ==
    /\ NoRun
    /\ ExtractorIdle
    /\ zip_pc = "loop"
    /\ files \in ZipFolders
    /\ file_pos = 1
    /\ part = 1
    /\ bytes_written = 0
    /\ dest_root = <<NewZip(PartPath(1))>>
    /\ ScanIdle

\* one iteration of the loop over iter_files(src_dir)
WriteFile ==
    /\ zip_pc = "loop"
    /\ file_pos <= Len(files)
    /\ LET size_guess == FILE_KINDS[files[file_pos]].size
           new_part == bytes_written # 0 /\ bytes_written + size_guess > MAX_PART
           AfterWrite(root) ==
               /\ dest_root' = root
               /\ bytes_written' = root[Len(root)].bytes
       IN  /\ part' = IF new_part THEN part + 1 ELSE part
           /\ AfterWrite(Written(IF new_part
                                 THEN Append(Closed(dest_root), NewZip(PartPath(part + 1)))
                                 ELSE dest_root,
                                 RelPath(file_pos), FILE_KINDS[files[file_pos]]))
    /\ file_pos' = file_pos + 1
    /\ UNCHANGED <<zip_pc, files>>
    /\ UNCHANGED run_vars
    /\ UNCHANGED extractor_vars
    /\ UNCHANGED scan_vars

\* lines 51-55: the last part is closed and a single part loses "_part1"
CloseLast ==
    /\ zip_pc = "loop"
    /\ file_pos > Len(files)
    /\ dest_root' = IF part = 1
                    THEN [Closed(dest_root) EXCEPT ![1].name = fy \o ".zip"]
                    ELSE Closed(dest_root)
    /\ zip_pc' = "done"
    /\ UNCHANGED <<files, file_pos, part, bytes_written>>
    /\ UNCHANGED run_vars
    /\ UNCHANGED extractor_vars
    /\ UNCHANGED scan_vars

ZipNext == WriteFile \/ CloseLast

ZipSpec == ZipInit /\ [][ZipNext]_vars

(***************************************************************************)
(* The while loop of extract_deductions_from_annexure over the lines of    *)
(* one deduction section, one iteration at a time.                         *)
(***************************************************************************)
\* the lines a section is made of: a header line, a line that is neither a
\* code nor an amount, a code line, and two amount lines
LEDGER_LINES == <<"COA", "Remarks", "00011075 - TDS", "1.00", "50.00">>

\* the sections of the model, as the list `lines` of the code
Ledgers ==
    UNION {{[k \in 1..n |-> LEDGER_LINES[d[k]]] : d \in [1..n -> 1..Len(LEDGER_LINES)]} :
              n \in 0..MaxLines}

\* a look-ahead that starts at the code line itself
AfterRecordFromCode(lines, i) == AmountsEnd(lines, DescEnd(lines, i))

\* j when the look-ahead of the record at line i ends: the index of the first
\* line after its description lines and its amount lines
AfterRecord(lines, i) == AmountsEnd(lines, DescEnd(lines, i + 1))

\* the mapping after the record at lines i..j-1, whose amounts start at line d
RecordRead(lines, i, d, j, deductions) ==
    IF j - d >= 2
    THEN Classify(deductions, 1, Upper(lines[i] \o JoinDesc(lines, i + 1, d - 1)),
                  ParseFloat(RemoveChar(lines[d + 1], ",")))
    ELSE deductions

\* lines 243-247: the section has been split and the loop has not started
ScanInit ==
    /\ NoRun
    /\ ExtractorIdle
    /\ ZipIdle
    /\ ledger \in Ledgers
    /\ line_index = 1
    /\ ledger_deductions = InitialDeductions
    /\ iterations = 0

\* one iteration of `while i < len(lines)`
ScanStep ==
    /\ line_index <= Len(ledger)
    /\ iterations <= Len(ledger)
    /\ iterations' = iterations + 1
    /\ IF ledger[line_index] \in HEADER_LINES
       THEN /\ line_index' = line_index + 1
            /\ UNCHANGED ledger_deductions
       ELSE IF IsCodeLine(ledger[line_index])
       THEN /\ line_index' = AfterRecord(ledger, line_index)
            /\ ledger_deductions' =
                   RecordRead(ledger, line_index, DescEnd(ledger, line_index + 1),
                              AfterRecord(ledger, line_index), ledger_deductions)
       ELSE /\ line_index' = line_index + 1
            /\ UNCHANGED ledger_deductions
    /\ UNCHANGED ledger
    /\ UNCHANGED run_vars
    /\ UNCHANGED extractor_vars
    /\ UNCHANGED zip_vars

ScanNext == ScanStep

ScanSpec == ScanInit /\ [][ScanNext]_vars

(***************************************************************************)
(* Properties.                                                             *)
(***************************************************************************)
ImprovedRun == script = "improved"
LegacyRun == script = "legacy"

\* the name of the document of task k
SourceName(k) == Basename(PdfPath(pdf_files[k]))

\* the loop of scan_and_extract has visited every file
ScanEnded == LegacyRun /\ scan_pos > Len(pdf_files)

\* C1: once every task of a run has completed, the collected result set holds
\* exactly one record per input document, whatever happened to the documents.
C1_OneRecordPerDocument ==
    /\ (ImprovedRun /\ AllTasksDone => Len(results) = Len(pdf_files))
    /\ (ScanEnded => Len(all_results) = Len(pdf_files))

\* C1 for process_all_pdfs alone: the pool orchestrator keeps one record per document
C1_ImprovedKeepsCount == ImprovedRun /\ AllTasksDone => Len(results) = Len(pdf_files)

\* C2: every collected record carries the base name of its document in FILE,
\* also when the text was empty or the extraction raised.
C2_RecordCarriesSourceName ==
    ImprovedRun =>
        /\ \A k \in 1..Len(future) :
               future[k].state = "FINISHED" /\ ~future[k].exception
                   => future[k].row["FILE"] = SourceName(k)
        /\ \A j \in 1..Len(results) :
               /\ results[j]["FILE"] # ""
               /\ \E k \in 1..Len(pdf_files) : results[j]["FILE"] = SourceName(k)

\* C3: every record handed to the output writer has exactly the columns of FIELDNAMES.
C3_RowsHaveDeclaredColumns ==
    ImprovedRun => \A j \in 1..Len(results) : DOMAIN results[j] = SeqToSet(FIELDNAMES)

\* the current-period amount the amount-table extractor returned for task k
\* (nothing when the extractor was not reached)
CurrentAmount(k) ==
    IF future[k].fault \/ Strip(TEXTS[future[k].text]) = "" THEN 0
    ELSE WorkDoneAmounts[future[k].text][2]

\* C4: in every record TOTAL_AMT is TAX_AMT plus the current-period amount.
C4_TotalIsTaxPlusCurrent ==
    ImprovedRun =>
        \A k \in 1..Len(future) :
            future[k].state = "FINISHED" /\ ~future[k].exception
                => ParseFloat(future[k].row["TOTAL_AMT"])
                     = ParseFloat(future[k].row["TAX_AMT"]) + CurrentAmount(k)

\* the columns of a record that are not header or amount columns
DeductionColumns(row) ==
    DOMAIN row \ { "FILE", "BILL_NO", "RUNNING_BIL", "RUNNING_BILL", "WO_NO", "JOB",
                   "BILL_PERIOD", "TAX_AMT", "TOTAL_AMT" }

\* C5: every record has every deduction key of the taxonomy and no other deduction key.
C5_DeductionKeysFixed ==
    ImprovedRun =>
        \A j \in 1..Len(results) : DeductionColumns(results[j]) = SeqToSet(DEDUCTION_KEYS)

\* C5 witness: an extracted record with a non-zero deduction and a default record
\* have both been collected
C5_Witness ==
    /\ ImprovedRun
    /\ \E i, j \in 1..Len(results) :
           /\ results[i]["FILE"] # "" /\ results[i]["TDS"] = "50.00"
           /\ results[j]["FILE"] = ""

\* C6: a run whose writer ran into an exception does not complete normally.
C6_WriteFailureIsFatal ==
    ImprovedRun /\ pc = "done" /\ write_error => outcome = "raised"

\* the lines that a complete flush of rows leaves in the file
FlushedLines(rows, names) == <<names>> \o [k \in 1..Len(rows) |-> _dict_to_list(rows[k], names)]

ChunkSize == 1

\* C7: records are flushed chunk by chunk (no more than one chunk of records is
\* held before a flush), and after the flush of the last chunk the output holds
\* the header and exactly the collected records.
C7_ChunksFlushed ==
    ImprovedRun =>
        /\ (pc = "collect" => Len(results) <= ChunkSize)
        /\ (pc = "done" /\ outcome = "returned" /\ results # <<>>
               => output[OUTPUT_CSV].lines = FlushedLines(results, FIELDNAMES))

HeaderOf(name) == IF name = OUTPUT_CSV THEN FIELDNAMES ELSE fieldnames

\* C8: an output file that exists starts with its header row, and the header
\* occurs nowhere else in it, however often the file has been written.
C8_HeaderWrittenOnce ==
    \A name \in DOMAIN output :
        LET file == output[name]
        IN  /\ ~file.exists => file.lines = <<>>
            /\ file.exists =>
                  /\ file.lines # <<>>
                  /\ file.lines[1] = HeaderOf(name)
                  /\ \A j \in 2..Len(file.lines) : file.lines[j] # HeaderOf(name)

\* C8 witness: the output of process_all_pdfs has been opened by two runs and
\* holds a data row below its header
C8_Witness ==
    /\ output[OUTPUT_CSV].opened = 2
    /\ Len(output[OUTPUT_CSV].lines) >= 2
    /\ pc = "done"

\* C9: an exception raised while one document is extracted becomes a default
\* record of that document; the run returns normally and every document of the
\* batch, the failed one and its siblings, contributes one record.
C9_ExceptionContained ==
    ImprovedRun =>
        /\ outcome # "raised"
        /\ \A k \in 1..Len(future) :
               /\ future[k].fault => future[k].row = _create_empty_row(SourceName(k))
               /\ future[k].yielded /\ ~future[k].exception =>
                      \E j \in 1..Len(results) : results[j] = future[k].row
        /\ (pc = "done" =>
               /\ Len(results) = Len(pdf_files)
               /\ \A k \in 1..Len(future) : future[k].yielded)

\* C9 witness: a run has ended in which the extraction of one document raised
\* and a sibling document was extracted
C9_Witness ==
    /\ ImprovedRun /\ pc = "done"
    /\ \E k, m \in 1..Len(future) :
           /\ future[k].fault
           /\ ~future[m].fault /\ ~future[m].exception /\ future[m].row["FILE"] # ""

\* C10: the output of process_all_pdfs changes only in a step taken when every
\* dispatched task has finished and has been collected; no step of a worker
\* changes it.
C10_WriteAfterJoin ==
    [][ ImprovedRun /\ output' # output =>
            \A k \in 1..Len(future) : future[k].state = "FINISHED" /\ future[k].yielded ]_vars

\* C10 witness: the output has been written by a run that dispatched two tasks
C10_Witness ==
    /\ ImprovedRun /\ pc = "done"
    /\ Len(future) = 2
    /\ output[OUTPUT_CSV].opened >= 1
    /\ \E k \in 1..2 : ~future[k].exception

(***************************************************************************)
(* The deduction parser applied to one annexure.                           *)
(***************************************************************************)
\* the parser has returned the mapping of the annexure of input, an annexure
\* that ends with its total line
DeductionsParsed == step = "deductions" /\ input.total

PF_KEY == "PF_OR_EPS_RECOVERED"

Magnitude(v) == IF v < 0 THEN 0 - v ELSE v

\* the record printed at position k of the annexure
RecordAt(k) == DEDUCTION_RECORDS[input.recs[k]]

\* the place in the declared order of the first category with an alias that
\* the description of rec contains, 0 if there is none
FirstCategory(rec) ==
    FirstOf({c \in 1..Len(DEDUCTION_KEYS) :
                AliasMatches(DEDUCTION_KEYS[c], Upper(Joined(rec.desc, " ")))})

\* the positions of the records classified to key, first match in declared order
RecordsOf(key) ==
    {k \in 1..Len(input.recs) :
        FirstCategory(RecordAt(k)) # 0 /\ DEDUCTION_KEYS[FirstCategory(RecordAt(k))] = key}

\* the positions of the records whose description contains an alias of key
MatchingRecords(key) ==
    {k \in 1..Len(input.recs) : AliasMatches(key, Upper(Joined(RecordAt(k).desc, " ")))}

\* the last of a non-empty set of positions
LastOf(S) == CHOOSE k \in S : \A j \in S : j <= k

\* C11: when several records of one document are classified as recovered
\* provident fund, the resolved value is the greatest absolute current-period
\* value among them, whatever their order.
C11_PfKeepsMaximum ==
    DeductionsParsed /\ RecordsOf(PF_KEY) # {} =>
        /\ \E k \in RecordsOf(PF_KEY) : extracted[PF_KEY] = Magnitude(RecordAt(k).value)
        /\ \A k \in RecordsOf(PF_KEY) : extracted[PF_KEY] >= Magnitude(RecordAt(k).value)

\* two PF records, the greater one printed first, resolved to the greater
C11_Witness ==
    /\ DeductionsParsed
    /\ RecordsOf(PF_KEY) = {1, 2}
    /\ Magnitude(RecordAt(1).value) > Magnitude(RecordAt(2).value)
    /\ extracted[PF_KEY] = Magnitude(RecordAt(1).value)

C13_OneCategoryPerRecord ==
    DeductionsParsed =>
        \A key \in SeqToSet(DEDUCTION_KEYS) : RecordsOf(key) = {} => extracted[key] = 0

(***************************************************************************)
(* The amount extractor applied to one work-done table.                    *)
(***************************************************************************)
\* the extractor has returned (tax_amount, this_bill_amount) for the table of input
AmountsParsed == step = "amounts"

\* C14: when the label 'Total Work Done Amount' is followed by five decimal
\* tokens, the extractor returns the amount of the fourth token as tax and
\* the amount of the second token as current amount, separators stripped.
C14_FiveTokenRow ==
    AmountsParsed /\ input.table.label /\ input.table.count >= 5 =>
        extracted = <<AMOUNT_TOKENS[4].value, AMOUNT_TOKENS[2].value>>

\* the row 1,000.00 2,500.00 3,500.00 125.00 2,625.00 read as tax 125.00 and
\* current 2500.00
C14_Witness ==
    /\ AmountsParsed
    /\ input.table.label /\ input.table.count = 5
    /\ extracted = <<12500, 250000>>

\* C15: when fewer than 4 tokens follow the label, or the label is absent,
\* the extractor returns 0.00 for both amounts.
C15_ShortRowGivesZero ==
    AmountsParsed /\ (~input.table.label \/ input.table.count < 4) =>
        extracted = <<0, 0>>

(***************************************************************************)
(* The identifiers of one first page, read by either script.               *)
(***************************************************************************)
\* one of the scripts has built the record of the page of input
HeaderRead == step \in {"improved", "legacy"}

\* document_no and sequence_no of the record
DocumentNo == IF step = "improved" THEN extracted.BILL_NO ELSE extracted.bill_no
SequenceNo == IF step = "improved" THEN extracted.RUNNING_BILL ELSE extracted.running_bill_no

\* the source name of the document without its extension
SourceStem == "bill" \o ToString(input.name)

\* no bill number is printed on the page
NoBillPrinted == input.header.bill = 1

\* no running bill number is printed on the page, and none comes from the OCR
NoRunningPrinted ==
    /\ input.header.running = 1
    /\ step = "legacy" => OCR_TEXTS[input.ocr] = ""

\* C16: when no pattern resolves document_no, the record carries the source
\* name with its extension stripped, a non-empty value.
C16_FilenameFallback == HeaderRead /\ NoBillPrinted => DocumentNo = SourceStem

\* C17: when every stage of the search for the sequence number fails,
\* sequence_no is the sentinel "MISSING".
C17_MissingSentinel == HeaderRead /\ NoRunningPrinted => SequenceNo = "MISSING"

\* the running label is followed on the next line by its digits
RunningOnNextLine == input.header.running \in {3, 4}

BareIdentifier == input.header.bill = 3

\* C19: an identifier AB123BIL1234567 on its own line, with no bill label
\* anywhere, is resolved by the direct pattern to that identifier.
C19_DirectMatch == HeaderRead /\ BareIdentifier => DocumentNo = HEADER_BILLS[3].id

\* process_single_pdf has read the bare identifier
C19_Witness ==
    /\ step = "improved"
    /\ BareIdentifier
    /\ DocumentNo = "AB123BIL1234567"

HEADER_COLUMNS == {"BILL_NO", "RUNNING_BILL", "WO_NO", "JOB", "BILL_PERIOD"}

\* the worker of task k returned a record for a text that is blank after strip()
BlankTextRead(k) ==
    /\ future[k].state = "FINISHED"
    /\ ~future[k].exception
    /\ ~future[k].fault
    /\ Strip(TEXTS[future[k].text]) = ""

\* C21: the record of a document whose text is empty or whitespace only has
\* every identifier and header column empty (or the sentinel) and every amount
\* and deduction column 0.00.
C21_BlankTextGivesDefaults ==
    ImprovedRun =>
        \A k \in 1..Len(future) :
            BlankTextRead(k) =>
                \A field \in DOMAIN future[k].row :
                    /\ field \in HEADER_COLUMNS => future[k].row[field] \in {"", "MISSING"}
                    /\ field \notin HEADER_COLUMNS \cup {"FILE"} => future[k].row[field] = "0.00"

(***************************************************************************)
(* The parts zip_year_folder leaves in the destination folder.             *)
(***************************************************************************)
RECURSIVE SizeOnDisk(_, _)
\* the bytes of the first n files of the folder as they are on disk
SizeOnDisk(fs, n) == IF n = 0 THEN 0 ELSE SizeOnDisk(fs, n - 1) + FILE_KINDS[fs[n]].size

\* the files of the folder take no more than one part
FitInOnePart == SizeOnDisk(files, Len(files)) <= MAX_PART

\* C22: when zip_year_folder has returned, no archive it wrote is larger than
\* MAX_PART, and a folder whose files fit in one part has left one archive,
\* named after the folder without "_part1".
C22_PartsWithinLimit ==
    zip_pc = "done" =>
        /\ \A n \in 1..Len(dest_root) : dest_root[n].bytes <= MAX_PART
        /\ (FitInOnePart => Len(dest_root) = 1 /\ dest_root[1].name = fy \o ".zip")

(***************************************************************************)
(* Where the deduction section ends.                                       *)
(***************************************************************************)
\* the mapping the line scanner gives for the record lines of the annexure
RecordsScanned ==
    ScanLines(StripNonEmpty(Split(RecordLines(input.recs), "\n")), 1, InitialDeductions)

\* C23: the section runs from the start marker to the first total line after
\* it, and to the end of the text when there is no total line: in both cases
\* the records printed after the start marker are the ones parsed.
C23_SectionToEndOfText == step = "deductions" => extracted = RecordsScanned

(***************************************************************************)
(* Which amount line of a record is its value.                             *)
(***************************************************************************)
\* C24: the value a record gives to a category is read from the second of its
\* amount lines: every category that a record of the annexure matches holds
\* the magnitude of the current-period amount of such a record, never the
\* amount of the first or of the third line.
C24_SecondAmountLine ==
    DeductionsParsed =>
        \A key \in SeqToSet(DEDUCTION_KEYS) :
            MatchingRecords(key) # {} =>
                /\ \E k \in MatchingRecords(key) :
                       extracted[key] = Magnitude(RecordAt(k).value)
                /\ extracted[key] \notin {PRIOR_LINE.value, CUMULATIVE_LINE.value}

\* one record with three amount lines, resolved to the second
C24_Witness ==
    /\ DeductionsParsed
    /\ Len(input.recs) = 1
    /\ MatchingRecords("TDS") = {1}
    /\ extracted["TDS"] = Magnitude(RecordAt(1).value)
    /\ extracted["TDS"] # PRIOR_LINE.value

(***************************************************************************)
(* A total row of four tokens.                                             *)
(***************************************************************************)
\* C25: when at least four decimal tokens follow the label 'Total Work Done
\* Amount', the extractor returns the amount of the fourth as tax and the
\* amount of the second as current amount, also when there are exactly four.
C25_FourTokenRow ==
    AmountsParsed /\ input.table.label /\ input.table.count >= 4 =>
        extracted = <<AMOUNT_TOKENS[4].value, AMOUNT_TOKENS[2].value>>

(***************************************************************************)
(* The line scanner over one deduction section.                            *)
(***************************************************************************)
\* C26: every iteration of the line scanner moves the line index forward, by
\* one and without a change of the mapping for a line that is not a code
\* line, and the scan never takes more iterations than the section has lines.
C26_ScanAdvances ==
    [][ /\ line_index' > line_index
        /\ iterations' <= Len(ledger)
        /\ (~IsCodeLine(ledger[line_index]) =>
                line_index' = line_index + 1 /\ ledger_deductions' = ledger_deductions)
      ]_vars

\* a section of a header line and one record with two amount lines, scanned to
\* its end in two iterations
C26_Witness ==
    /\ Len(ledger) = 4
    /\ ledger[1] \in HEADER_LINES /\ IsCodeLine(ledger[2])
    /\ line_index = Len(ledger) + 1
    /\ iterations = 2
    /\ ledger_deductions["TDS"] = 5000

====
